---- MODULE Spec2Model ----
(***************************************************************************)
(* Model of pandora_cf_sfcno2.py: reading of a Pandora L2 observation file, *)
(* the date/height filter, the per-record matching against GEOS-CF files    *)
(* with the (fnl, dsl) cache, the partial-column integration loop, the unit *)
(* conversions and the csv write.                                           *)
(*                                                                          *)
(* Floating-point values are modelled as exact rationals [n, d] in lowest   *)
(* terms.  Times are integer ticks; heights of the observation file are     *)
(* integer multiples of 1/HgtDen km.  The partial column is carried as the  *)
(* coefficient of VV_TO_MOLEC (a positive constant that multiplies every    *)
(* term of the sum), since 1000/(9.80665*28.9644) has no small exact form.  *)
(***************************************************************************)
EXTENDS Integers, Sequences, FiniteSets, TLC

VARIABLES
    obsFile,    \* the file obs/<basename>: [exists, hdr, recs]
    missing,    \* the GEOS-CF paths that do not exist on disk
    outFile,    \* the file merged_csv/<basename>+GEOSCF.csv: [exists, rows]
    now,        \* the wall clock, dt.datetime.today() of the current run
    runs,       \* number of invocations of main so far
    pc,         \* position of main: "idle", "matching", "hung"
    exit,       \* how the last invocation of main ended
    station,    \* [lat, lon] returned by _read_pandora
    pand,       \* the filtered table of main, one row per record
    irow,       \* loop index of main's matching loop
    fnl,        \* cache: family -> path
    dsl,        \* cache: family -> dataset
    opened,     \* paths given to xr.open_dataset by the last step, in order
    stdout,     \* messages printed by the last step, in order
    loop,       \* state of one run of the integration loop (SpecInt)
    conv,       \* state of one forward/inverse conversion (SpecConv)
    rd          \* state of one header scan of _read_pandora (SpecRead)

mainVars == <<obsFile, missing, outFile, now, runs, pc, exit, station, pand,
              irow, fnl, dsl, opened, stdout>>
vars == <<obsFile, missing, outFile, now, runs, pc, exit, station, pand,
          irow, fnl, dsl, opened, stdout, loop, conv, rd>>

-----------------------------------------------------------------------------
(* Bounds of the model *)

MaxRecords == 2      \* records in the observation file
MaxRuns == 2         \* invocations of main
MaxLayers == 3       \* layers of a profile in SpecInt
MaxHeight == 6       \* largest target height in SpecInt
MaxHdr == 3          \* header lines in SpecRead
MaxEofReads == 3     \* readline() calls at end-of-file followed in SpecRead
MaxVal == 2          \* largest P, T and x0 numerator in SpecConv

(* Resolution of the modelled quantities *)

TicksPerMinute == 2  \* clock ticks per minute (timestamps carry seconds)
HgtDen == 2          \* pandora_no2_l1hgt is a multiple of 1/HgtDen km
QDen == 2            \* specific humidity is a multiple of 1/QDen
MixDen == 1000000    \* mixing ratios are multiples of 1/MixDen

TicksPerHour == 60 * TicksPerMinute
Day == 24 * TicksPerHour

None == "None"
\* np.nan and inf, as the quotients 0/0 and 1/0
NaN == [n |-> 0, d |-> 0]
Inf == [n |-> 1, d |-> 0]
EmptyMap == [f \in {} |-> 0]

-----------------------------------------------------------------------------
(* Exact rational arithmetic standing for float arithmetic *)

Abs(a) == IF a < 0 THEN -a ELSE a

RECURSIVE GCD(_, _)
GCD(a, b) == IF b = 0 THEN a ELSE GCD(b, a % b)

Rat(n, d) ==
    LET s == IF d < 0 THEN -1 ELSE 1
        g == GCD(Abs(n), Abs(d))
    IN  [n |-> s * (n \div g), d |-> s * (d \div g)]

RInt(k) == [n |-> k, d |-> 1]

RMul(a, b) ==
    LET g1 == GCD(Abs(a.n), b.d)
        g2 == GCD(Abs(b.n), a.d)
        h1 == IF g1 = 0 THEN 1 ELSE g1
        h2 == IF g2 = 0 THEN 1 ELSE g2
    IN  Rat((a.n \div h1) * (b.n \div h2), (a.d \div h2) * (b.d \div h1))

\* b # 0
RDiv(a, b) == RMul(a, IF b.n < 0 THEN [n |-> -b.d, d |-> -b.n]
                                 ELSE [n |-> b.d, d |-> b.n])

RAdd(a, b) ==
    LET g == GCD(a.d, b.d)
    IN  Rat(a.n * (b.d \div g) + b.n * (a.d \div g), a.d * (b.d \div g))

RSub(a, b) == RAdd(a, [n |-> -b.n, d |-> b.d])

RLt(a, b) == a.n * b.d < b.n * a.d
RLeq(a, b) == a.n * b.d <= b.n * a.d

-----------------------------------------------------------------------------
(* Constants of the program *)

\* MINDATE = dt.datetime(2020,1,1); tick 0 is 2019-12-31 00:00
MINDATE == Day
\* 8.314
Rgas == Rat(8314, 1000)
\* 1.0e9
PPB == 1000000000
\* the 15. of the height filter, in km
MaxHgtKm == 15
\* dt.timedelta(days=3)
LatencyDays == 3

-----------------------------------------------------------------------------
(* Python sequences are indexed from 0 *)

At(s, i) == s[i + 1]

Reverse(s) == [i \in 1..Len(s) |-> s[Len(s) + 1 - i]]

Put(f, k, v) == [x \in DOMAIN f \cup {k} |-> IF x = k THEN v ELSE f[x]]

-----------------------------------------------------------------------------
(* The partial-column loop of _match_cf.  p = [zl, delp, q, no2, ihgt] holds  *)
(* the reversed (surface-up) arrays: zl in m, delp, q in 1/QDen, no2 in       *)
(* 1/MixDen, and the target height ihgt in m (a rational).                    *)
(* st = [iL, l1col, inML, frac, warned, err].                                  *)

\* toph = (zl[iL]+zl[iL+1])/2.
TopH(zl, iL) == Rat(At(zl, iL) + At(zl, iL + 1), 2)

\* both = (zl[iL]+zl[iL-1])/2. if iL>0 else 0.0
BotH(zl, iL) == IF iL > 0 THEN Rat(At(zl, iL) + At(zl, iL - 1), 2) ELSE RInt(0)

\* faulty variant: the fraction taken from the ground instead of from the layer bottom
FracMut(zl, iL, ihgt) ==
    IF RLt(ihgt, TopH(zl, iL)) THEN RDiv(ihgt, TopH(zl, iL)) ELSE RInt(1)

Frac(zl, iL, ihgt) ==
    IF RLt(ihgt, TopH(zl, iL))
    THEN RDiv(RSub(ihgt, BotH(zl, iL)), RSub(TopH(zl, iL), BotH(zl, iL)))
    ELSE RInt(1)

\* no2[iL] * delp[iL] * (1.-q[iL]) * VV_TO_MOLEC * frac, in units of VV_TO_MOLEC
LayerTerm(p, iL, frac) ==
    RMul(RMul(RMul(Rat(At(p.no2, iL), MixDen), RInt(At(p.delp, iL))),
              RSub(RInt(1), Rat(At(p.q, iL), QDen))),
         frac)

LoopStart == [iL |-> 0, l1col |-> RInt(0), inML |-> TRUE, frac |-> NaN,
              warned |-> FALSE, err |-> None]

\* one pass through the body of "while inML"
LoopBody(p, st) ==
    IF st.iL + 1 >= Len(p.zl)
    THEN \* zl[iL+1] is out of range
         [st EXCEPT !.err = "IndexError"]
    ELSE LET frac == Frac(p.zl, st.iL, p.ihgt)
             iL == st.iL + 1
         IN  [iL |-> iL,
              l1col |-> RAdd(st.l1col, LayerTerm(p, st.iL, frac)),
              inML |-> IF RLt(frac, RInt(1)) THEN FALSE ELSE st.inML,
              frac |-> frac,
              \* "inML: False" is an annotation, inML keeps its value
              warned |-> st.warned \/ iL >= Len(p.zl) + 1,
              err |-> None]

RECURSIVE RunLoop(_, _)
RunLoop(p, st) ==
    IF st.err # None \/ ~st.inML THEN st ELSE RunLoop(p, LoopBody(p, st))

-----------------------------------------------------------------------------
(* Unit conversions of _match_cf *)

\* sfcmr = iconc * 1.0e9
SfcMr(iconc) == RMul(iconc, RInt(PPB))

\* faulty variant: the temperature left out of the ideal-gas relation
SfcConcMut(iconc, prs, temp) == RDiv(RMul(iconc, prs), Rgas)

\* sfcconc = iconc * prs / ( 8.314 * temp )
SfcConc(iconc, prs, temp) == RDiv(RMul(iconc, prs), RMul(Rgas, temp))

\* sfcmr_pandora = conc / prs * ( 8.314 * temp ) * 1.0e9 / (1.-q[0])
SfcMrPandora(conc, prs, temp, q0) ==
    LET num == RMul(RMul(RDiv(conc, prs), RMul(Rgas, temp)), RInt(PPB))
        den == RSub(RInt(1), q0)
    IN  IF den.n = 0 THEN (IF num.n = 0 THEN NaN ELSE Inf) ELSE RDiv(num, den)

-----------------------------------------------------------------------------
(* Time stamps and file names *)

\* faulty variant: the time stamp cut to its hour instead of rounded
RoundHMut(t) == (t \div TicksPerHour) * TicksPerHour

\* row.date.round('H'): pandas rounds to the nearest hour, a tie to the even hour
RoundH(t) ==
    LET h == t \div TicksPerHour
        r == t % TicksPerHour
    IN  IF 2 * r < TicksPerHour THEN h * TicksPerHour
        ELSE IF 2 * r > TicksPerHour THEN (h + 1) * TicksPerHour
        ELSE IF h % 2 = 0 THEN h * TicksPerHour ELSE (h + 1) * TicksPerHour

\* default of --cf_template: ...rpl.<col>_inst_1hr_g1440x721_v72.%Y%m%d_%H00z.nc4
CfTemplate == [col |-> "<col>", coll |-> "inst_1hr_g1440x721_v72", mm |-> "00z"]
\* default of --pbl_template: ...rpl.met_tavg_1hr_g1440x721_x1.%Y%m%d_%H30z.nc4
PblTemplate == [col |-> "met", coll |-> "tavg_1hr_g1440x721_x1", mm |-> "30z"]

\* t.strftime(template): %Y, %m, %d and %H name the hour t falls in
Strftime(tmpl, t) ==
    [col |-> tmpl.col, coll |-> tmpl.coll, hr |-> t \div TicksPerHour, mm |-> tmpl.mm]

\* templ.replace('<col>', col)
Replace(templ, col) == IF templ.col = "<col>" THEN [templ EXCEPT !.col = col] ELSE templ

IfileC(date) == Replace(Strftime(CfTemplate, RoundH(date)), "chm")
IfileM(date) == Replace(Strftime(CfTemplate, RoundH(date)), "met")
IfileP(date) == Strftime(PblTemplate, date)

\* to_csv(date_format="%Y-%m-%d %H:%M"): the time stamp cut to the minute
FormatDate(t) == (t \div TicksPerMinute) * TicksPerMinute

-----------------------------------------------------------------------------
(* The GEOS-CF files.  A file holds, for the grid cell nearest the station,  *)
(* the arrays in file order (top of the atmosphere first).                    *)

IsFile(path) == path \notin missing

FileData(path) ==
    IF path.col = "chm"
    THEN [NO2 |-> <<1, 2, 3 + (path.hr % 2)>>]
    ELSE IF path.mm = "00z"
    THEN [PS |-> 2 + (path.hr % 2), T |-> <<1, 2, 3>>, DELP |-> <<2, 2, 1>>,
          ZL |-> <<2500, 1500, 500>>, Q |-> <<0, 0, path.hr % 2>>]
    ELSE [ZPBL |-> 100 + path.hr]

\* xr.open_dataset(path) of an existing file
OpenDataset(path) == [src |-> path, data |-> FileData(path)]

-----------------------------------------------------------------------------
(* _match_cf.  c = [fnl, dsl, opened, stdout, ds, status] is the cache and    *)
(* the side effects so far; status is "ok", "return" (the early return) or    *)
(* the exception raised.                                                       *)

\* the chm collection: lines 131-144
ReadChm(c, ifilec) ==
    IF "chm" \in DOMAIN c.fnl /\ c.fnl["chm"] = ifilec
    THEN [c EXCEPT !.ds = c.dsl["chm"]]
    ELSE IF ~IsFile(ifilec)
    THEN [c EXCEPT !.stdout = Append(@, "Warning - file not found"),
                   !.status = "return"]
    ELSE [c EXCEPT !.stdout = Append(@, "reading"),
                   !.opened = Append(@, ifilec),
                   !.ds = OpenDataset(ifilec),
                   !.fnl = Put(@, "chm", ifilec),
                   !.dsl = Put(@, "chm", OpenDataset(ifilec))]

\* faulty variant: the cached path is not looked at, the file is opened on every pass
ReadOtherMut(c, fam, ifile) ==
    IF ~IsFile(ifile)
    THEN [c EXCEPT !.stdout = Append(@, "reading"),
                   !.opened = Append(@, ifile),
                   !.status = "FileNotFoundError"]
    ELSE [c EXCEPT !.stdout = Append(@, "reading"),
                   !.opened = Append(@, ifile),
                   !.ds = OpenDataset(ifile),
                   !.fnl = Put(@, fam, ifile),
                   !.dsl = Put(@, fam, OpenDataset(ifile))]

\* the met and pbl collections: lines 146-156 and 158-168
ReadOther(c, fam, ifile) ==
    IF fam \in DOMAIN c.fnl /\ c.fnl[fam] = ifile
    THEN [c EXCEPT !.ds = c.dsl[fam]]
    ELSE IF ~IsFile(ifile)
    THEN \* xr.open_dataset raises, nothing catches it
         [c EXCEPT !.stdout = Append(@, "reading"),
                   !.opened = Append(@, ifile),
                   !.status = "FileNotFoundError"]
    ELSE [c EXCEPT !.stdout = Append(@, "reading"),
                   !.opened = Append(@, ifile),
                   !.ds = OpenDataset(ifile),
                   !.fnl = Put(@, fam, ifile),
                   !.dsl = Put(@, fam, OpenDataset(ifile))]

NaNVals == [sfcmr |-> NaN, sfcconc |-> NaN, l1col |-> NaN, pbl |-> NaN,
            sfcmr_pandora |-> NaN]

\* lines 169-204, with the three datasets at hand
Derive(row, dsc, dsm, dsp) ==
    LET iconc == Rat(At(dsc.data.NO2, Len(dsc.data.NO2) - 1), MixDen)
        prs == RInt(dsm.data.PS)
        temp == RInt(At(dsm.data.T, Len(dsm.data.T) - 1))
        p == [ihgt |-> RMul(Rat(row.pandora_no2_l1hgt, HgtDen), RInt(1000)),
              delp |-> Reverse(dsm.data.DELP),
              zl |-> Reverse(dsm.data.ZL),
              q |-> Reverse(dsm.data.Q),
              no2 |-> Reverse(dsc.data.NO2)]
        st == RunLoop(p, LoopStart)
    IN  [err |-> st.err,
         warned |-> st.warned,
         vals |-> [sfcmr |-> SfcMr(iconc),
                   sfcconc |-> SfcConc(iconc, prs, temp),
                   l1col |-> st.l1col,
                   pbl |-> RInt(dsp.data.ZPBL),
                   sfcmr_pandora |->
                       SfcMrPandora(row.pandora_no2_sfcconc, prs, temp,
                                    Rat(At(p.q, 0), QDen))]]

MatchCf(row, fnl0, dsl0) ==
    LET c0 == [fnl |-> fnl0, dsl |-> dsl0, opened |-> <<>>, stdout |-> <<>>,
               ds |-> None, status |-> "ok"]
        cc == ReadChm(c0, IfileC(row.date))
        cm == IF cc.status = "ok" THEN ReadOther(cc, "met", IfileM(row.date)) ELSE cc
        cp == IF cm.status = "ok" THEN ReadOther(cm, "pbl", IfileP(row.date)) ELSE cm
    IN  IF cp.status # "ok"
        THEN [status |-> cp.status, vals |-> NaNVals, fnl |-> cp.fnl, dsl |-> cp.dsl,
              opened |-> cp.opened, stdout |-> cp.stdout]
        ELSE LET d == Derive(row, cc.ds, cm.ds, cp.ds)
             IN  [status |-> IF d.err = None THEN "ok" ELSE d.err,
                  vals |-> IF d.err = None THEN d.vals ELSE NaNVals,
                  fnl |-> cp.fnl, dsl |-> cp.dsl, opened |-> cp.opened,
                  stdout |-> IF d.warned
                             THEN Append(cp.stdout, "Warning: Pandora layer height greater than entire atmosphere")
                             ELSE cp.stdout]

-----------------------------------------------------------------------------
(* _read_pandora.  A header line is [label, val]; readline() at end-of-file  *)
(* returns the empty line.  r = [lines, pos, lat, lon, eofReads].             *)

EofLine == [label |-> "", val |-> ""]

ScanStart(lines) == [lines |-> lines, pos |-> 0, lat |-> None, lon |-> None,
                     eofReads |-> 0]

\* the condition of "while lat is None or lon is None"
Scanning(r) == r.lat = None \/ r.lon = None

\* one pass through the body of the while loop: lines 230-236
ReadLine(r) ==
    LET atEof == r.pos >= Len(r.lines)
        line == IF atEof THEN EofLine ELSE At(r.lines, r.pos)
    IN  [lines |-> r.lines,
         pos |-> IF atEof THEN r.pos ELSE r.pos + 1,
         lat |-> IF line.label = "Location latitude" THEN line.val ELSE r.lat,
         lon |-> IF line.label = "Location longitude" THEN line.val ELSE r.lon,
         eofReads |-> IF atEof THEN r.eofReads + 1 ELSE r.eofReads]

\* the while loop run to its end; at end-of-file with a coordinate unset every
\* further pass leaves lat and lon as they are, so the loop never ends
RECURSIVE ScanHeader(_)
ScanHeader(r) ==
    IF ~Scanning(r) THEN [status |-> "ok", lat |-> r.lat, lon |-> r.lon]
    ELSE IF r.pos >= Len(r.lines) THEN [status |-> "hang", lat |-> r.lat, lon |-> r.lon]
    ELSE ScanHeader(ReadLine(r))

\* lines 212-237: pd.concat of an empty list raises ValueError
ReadPandora(file) ==
    IF Len(file.recs) = 0
    THEN [status |-> "ValueError", alldat |-> <<>>, lat |-> None, lon |-> None]
    ELSE LET h == ScanHeader(ScanStart(file.hdr))
         IN  [status |-> h.status, alldat |-> file.recs, lat |-> h.lat, lon |-> h.lon]

-----------------------------------------------------------------------------
(* main *)

\* maxdate: today minus three days, cut to midnight (lines 57-58)
MaxDate(today) == ((today - LatencyDays * Day) \div Day) * Day

\* faulty variant: the height ceiling itself is let through
KeepRowMut(rec, today) ==
    /\ rec.date >= MINDATE
    /\ rec.date <= MaxDate(today)
    /\ RLt(RInt(0), Rat(rec.pandora_no2_l1hgt, HgtDen))
    /\ RLeq(Rat(rec.pandora_no2_l1hgt, HgtDen), RInt(MaxHgtKm))

\* the three filters of lines 59-61
KeepRow(rec, today) ==
    /\ rec.date >= MINDATE
    /\ rec.date <= MaxDate(today)
    /\ RLt(RInt(0), Rat(rec.pandora_no2_l1hgt, HgtDen))
    /\ RLt(Rat(rec.pandora_no2_l1hgt, HgtDen), RInt(MaxHgtKm))

\* lines 64-68: the five empty columns
EmptyRow(rec) ==
    [date |-> rec.date,
     pandora_no2_qval |-> rec.pandora_no2_qval,
     pandora_no2_sfcconc |-> rec.pandora_no2_sfcconc,
     pandora_no2_l1hgt |-> rec.pandora_no2_l1hgt,
     pandora_no2_l1col |-> rec.pandora_no2_l1col,
     pandora_no2_sfcmr |-> NaN, cf_no2_sfcmr |-> NaN, cf_no2_sfcconc |-> NaN,
     cf_no2_l1col |-> NaN, cf_no2_pbl |-> NaN]

Filtered(recs, today) ==
    LET kept == SelectSeq(recs, LAMBDA rec : KeepRow(rec, today))
    IN  [i \in 1..Len(kept) |-> EmptyRow(kept[i])]

\* lines 76-80
SetRow(row, v) ==
    [row EXCEPT !.pandora_no2_sfcmr = v.sfcmr_pandora, !.cf_no2_sfcmr = v.sfcmr,
                !.cf_no2_sfcconc = v.sfcconc, !.cf_no2_l1col = v.l1col,
                !.cf_no2_pbl = v.pbl]

\* lines 83-87: one csv row
CsvRow(row, st) ==
    [date |-> FormatDate(row.date),
     pandora_no2_qval |-> row.pandora_no2_qval,
     pandora_no2_sfcconc |-> row.pandora_no2_sfcconc,
     pandora_no2_l1hgt |-> row.pandora_no2_l1hgt,
     pandora_no2_l1col |-> row.pandora_no2_l1col,
     pandora_no2_sfcmr |-> row.pandora_no2_sfcmr, cf_no2_sfcmr |-> row.cf_no2_sfcmr,
     cf_no2_sfcconc |-> row.cf_no2_sfcconc, cf_no2_l1col |-> row.cf_no2_l1col,
     cf_no2_pbl |-> row.cf_no2_pbl, lat |-> st.lat, lon |-> st.lon]

NoStation == [lat |-> None, lon |-> None]

-----------------------------------------------------------------------------
(* The inputs of main: the observation file, the files on disk, the clock *)

H30 == TicksPerHour \div 2

Obs(date, hgt) ==
    [date |-> date, pandora_no2_qval |-> 10, pandora_no2_sfcconc |-> Rat(1, 1000),
     pandora_no2_l1hgt |-> hgt, pandora_no2_l1col |-> Rat(1, 1000)]

\* records around the edges of the date window, of the height window, of an
\* hour, and below and above the highest layer top of the profile
Candidates ==
    { Obs(MINDATE - 1, 1),
      Obs(MINDATE, 1),
      Obs(MINDATE, 0),
      Obs(MINDATE, MaxHgtKm * HgtDen),
      Obs(MINDATE + H30, 3),
      Obs(MINDATE + H30 + 1, 1),
      Obs(MINDATE + TicksPerHour + H30, 4),
      Obs(MINDATE + Day, 1),
      Obs(MINDATE + Day + 1, 3) }

HdrComplete == << [label |-> "File name", val |-> "x"],
                  [label |-> "Location latitude", val |-> "38.9"],
                  [label |-> "Location longitude", val |-> "-77.0"] >>
HdrNoLongitude == << [label |-> "Location latitude", val |-> "38.9"],
                     [label |-> "File name", val |-> "x"] >>

Headers == {HdrComplete, HdrNoLongitude}

AllPaths == UNION {{IfileC(c.date), IfileM(c.date), IfileP(c.date)} : c \in Candidates}

\* the disk lacks none or one of the files a record can resolve to
MissingSets == {{}} \cup {{x} : x \in AllPaths}

\* the clock at the start of a run; time does not go back between runs
Nows == {MINDATE + 4 * Day + 10 * TicksPerHour, MINDATE + 5 * Day + 1}

LoopIdle == [p |-> [zl |-> <<>>, delp |-> <<>>, q |-> <<>>, no2 |-> <<>>, ihgt |-> RInt(0)],
             st |-> LoopStart, pc |-> "idle"]
ConvIdle == [x0 |-> RInt(0), prs |-> RInt(1), temp |-> RInt(1), q0 |-> RInt(0),
             conc |-> NaN, back |-> NaN, pc |-> "idle"]
RdIdle == [r |-> ScanStart(<<>>), pc |-> "idle"]

Init ==
    /\ \/ obsFile = [exists |-> FALSE, hdr |-> <<>>, recs |-> <<>>]
       \/ \E h \in Headers, k \in 0..MaxRecords :
             \E r \in [1..k -> Candidates] :
                obsFile = [exists |-> TRUE, hdr |-> h, recs |-> r]
    /\ missing \in MissingSets
    /\ outFile = [exists |-> FALSE, rows |-> <<>>]
    /\ now = MINDATE + 4 * Day
    /\ runs = 0
    /\ pc = "idle"
    /\ exit = None
    /\ station = NoStation
    /\ pand = <<>>
    /\ irow = 0
    /\ fnl = EmptyMap
    /\ dsl = EmptyMap
    /\ opened = <<>>
    /\ stdout = <<>>
    /\ loop = LoopIdle
    /\ conv = ConvIdle
    /\ rd = RdIdle

\* faulty variant: the check for an existing output is left out
OutputExistsMut(f) == FALSE

\* os.path.isfile(ifile) and os.path.isfile(ofile)
ObsExists(f) == f.exists
OutputExists(f) == f.exists

\* main, lines 39-71: the two guards, _read_pandora, the filter, the empty columns
Begin ==
    /\ pc = "idle"
    /\ runs < MaxRuns
    /\ runs' = runs + 1
    /\ \E t \in Nows : t >= now /\ now' = t
    /\ opened' = <<>>
    /\ UNCHANGED <<obsFile, missing, outFile, loop, conv, rd>>
    /\ IF ~ObsExists(obsFile)
       THEN /\ stdout' = <<"obs file does not exist, skip">>
            /\ exit' = "skip"
            /\ UNCHANGED <<pc, station, pand, irow, fnl, dsl>>
       ELSE IF OutputExists(outFile)
       THEN /\ stdout' = <<"file exists, don't do anything">>
            /\ exit' = "skip"
            /\ UNCHANGED <<pc, station, pand, irow, fnl, dsl>>
       ELSE \E r \in {ReadPandora(obsFile)} :
                /\ stdout' = <<"Reading">>
                /\ UNCHANGED <<irow, fnl, dsl>>
                /\ IF r.status = "ValueError"
                   THEN /\ exit' = "ValueError"
                        /\ UNCHANGED <<pc, station, pand>>
                   ELSE IF r.status = "hang"
                   THEN /\ pc' = "hung"
                        /\ exit' = None
                        /\ UNCHANGED <<station, pand>>
                   ELSE /\ pc' = "matching"
                        /\ exit' = None
                        /\ station' = [lat |-> r.lat, lon |-> r.lon]
                        /\ pand' = Filtered(r.alldat, now')

\* one pass of the loop of lines 72-80
MatchRow ==
    /\ pc = "matching"
    /\ irow < Len(pand)
    /\ \E r \in {MatchCf(At(pand, irow), fnl, dsl)} :
           /\ opened' = r.opened
           /\ stdout' = r.stdout
           /\ IF r.status \in {"ok", "return"}
              THEN /\ pand' = [pand EXCEPT ![irow + 1] = SetRow(@, r.vals)]
                   /\ irow' = irow + 1
                   /\ fnl' = r.fnl
                   /\ dsl' = r.dsl
                   /\ UNCHANGED <<pc, exit, station>>
              ELSE \* the exception ends the process; nothing is written
                   /\ pc' = "idle"
                   /\ exit' = r.status
                   /\ station' = NoStation
                   /\ pand' = <<>>
                   /\ irow' = 0
                   /\ fnl' = EmptyMap
                   /\ dsl' = EmptyMap
    /\ UNCHANGED <<obsFile, missing, outFile, now, runs, loop, conv, rd>>

\* lines 83-88 and the return
Write ==
    /\ pc = "matching"
    /\ irow = Len(pand)
    /\ outFile' = [exists |-> TRUE,
                   rows |-> [i \in 1..Len(pand) |-> CsvRow(pand[i], station)]]
    /\ stdout' = <<"data written to">>
    /\ opened' = <<>>
    /\ pc' = "idle"
    /\ exit' = "written"
    /\ station' = NoStation
    /\ pand' = <<>>
    /\ irow' = 0
    /\ fnl' = EmptyMap
    /\ dsl' = EmptyMap
    /\ UNCHANGED <<obsFile, missing, now, runs, loop, conv, rd>>

Next ==
    \/ Begin
    \/ MatchRow
    \/ Write

Spec == Init /\ [][Next]_vars

-----------------------------------------------------------------------------
(* The integration loop on its own, pass by pass, over bounded profiles *)

MainIdle ==
    /\ obsFile = [exists |-> FALSE, hdr |-> <<>>, recs |-> <<>>]
    /\ missing = {}
    /\ outFile = [exists |-> FALSE, rows |-> <<>>]
    /\ now = MINDATE + 4 * Day
    /\ runs = 0
    /\ pc = "idle"
    /\ exit = None
    /\ station = NoStation
    /\ pand = <<>>
    /\ irow = 0
    /\ fnl = EmptyMap
    /\ dsl = EmptyMap
    /\ opened = <<>>
    /\ stdout = <<>>

\* a layer of the met and chm files: pressure thickness, humidity, mixing ratio
LayerKinds == { [delp |-> 1, q |-> 0, no2 |-> 3],
                [delp |-> 2, q |-> 1, no2 |-> 1],
                [delp |-> 1, q |-> QDen, no2 |-> 2],
                [delp |-> 2, q |-> 0, no2 |-> 0] }

\* mid-layer heights, strictly increasing from the surface upward
ZlSeqs(n) == {z \in [1..n -> 1..MaxHeight] : \A i \in 1..(n - 1) : z[i] < z[i + 1]}

Profile(z, k, h) ==
    [zl |-> z,
     delp |-> [i \in DOMAIN z |-> k[i].delp],
     q |-> [i \in DOMAIN z |-> k[i].q],
     no2 |-> [i \in DOMAIN z |-> k[i].no2],
     ihgt |-> RInt(h)]

InitInt ==
    /\ MainIdle
    /\ \E n \in 1..MaxLayers :
          \E z \in ZlSeqs(n), k \in [1..n -> LayerKinds], h \in 1..MaxHeight :
              loop = [p |-> Profile(z, k, h), st |-> LoopStart, pc |-> "loop"]
    /\ conv = ConvIdle
    /\ rd = RdIdle

\* one pass of "while inML"; the loop is left when inML is False, or by the exception
IntStep ==
    /\ loop.pc = "loop"
    /\ \E st \in {LoopBody(loop.p, loop.st)} :
           loop' = [loop EXCEPT !.st = st,
                                !.pc = IF st.err # None THEN "raised"
                                       ELSE IF ~st.inML THEN "done" ELSE "loop"]
    /\ UNCHANGED <<mainVars, conv, rd>>

NextInt == IntStep

SpecInt == InitInt /\ [][NextInt]_vars

-----------------------------------------------------------------------------
(* The forward and the inverse conversion applied one after the other *)

InitConv ==
    /\ MainIdle
    /\ loop = LoopIdle
    /\ rd = RdIdle
    /\ \E x \in 0..MaxVal, ps \in 1..(MaxVal + 1), t \in 1..(MaxVal + 1), k \in 0..QDen :
          conv = [x0 |-> Rat(x, MixDen), prs |-> RInt(ps), temp |-> RInt(t),
                  q0 |-> Rat(k, QDen), conc |-> NaN, back |-> NaN, pc |-> "start"]

\* line 176
Forward ==
    /\ conv.pc = "start"
    /\ conv' = [conv EXCEPT !.conc = SfcConc(conv.x0, conv.prs, conv.temp),
                            !.pc = "forward"]
    /\ UNCHANGED <<mainVars, loop, rd>>

\* line 203, fed the concentration of line 176
Inverse ==
    /\ conv.pc = "forward"
    /\ conv' = [conv EXCEPT !.back = SfcMrPandora(conv.conc, conv.prs, conv.temp, conv.q0),
                            !.pc = "done"]
    /\ UNCHANGED <<mainVars, loop, rd>>

NextConv ==
    \/ Forward
    \/ Inverse

SpecConv == InitConv /\ [][NextConv]_vars

-----------------------------------------------------------------------------
(* The header scan of _read_pandora on its own, line by line *)

HdrLines == { [label |-> "Location latitude", val |-> "38.9"],
              [label |-> "Location longitude", val |-> "-77.0"],
              [label |-> "File name", val |-> "x"] }

InitRead ==
    /\ MainIdle
    /\ loop = LoopIdle
    /\ conv = ConvIdle
    /\ \E k \in 0..MaxHdr :
          \E l \in [1..k -> HdrLines] : rd = [r |-> ScanStart(l), pc |-> "scan"]

\* one pass of the while loop of lines 229-236
ScanLine ==
    /\ rd.pc = "scan"
    /\ Scanning(rd.r)
    /\ rd.r.eofReads < MaxEofReads
    /\ rd' = [rd EXCEPT !.r = ReadLine(rd.r)]
    /\ UNCHANGED <<mainVars, loop, conv>>

\* line 237
ScanReturn ==
    /\ rd.pc = "scan"
    /\ ~Scanning(rd.r)
    /\ rd' = [rd EXCEPT !.pc = "returned"]
    /\ UNCHANGED <<mainVars, loop, conv>>

NextRead ==
    \/ ScanLine
    \/ ScanReturn

SpecRead == InitRead /\ [][NextRead]_vars

-----------------------------------------------------------------------------
(* Properties of main and _match_cf, checked under Spec *)

Range(s) == {s[i] : i \in DOMAIN s}

Families == {"chm", "met", "pbl"}

\* the record the next pass of the matching loop works on
AtRecord == pc = "matching" /\ irow < Len(pand)
CurDate == At(pand, irow).date

\* the path the current record resolves to for a family
Resolved(fam) ==
    IF fam = "chm" THEN IfileC(CurDate)
    ELSE IF fam = "met" THEN IfileM(CurDate)
    ELSE IfileP(CurDate)

AllNaN(row) ==
    /\ row.cf_no2_sfcmr = NaN
    /\ row.cf_no2_sfcconc = NaN
    /\ row.cf_no2_l1col = NaN
    /\ row.cf_no2_pbl = NaN
    /\ row.pandora_no2_sfcmr = NaN

\* C1: whenever the model file a record resolves to is absent for any of the
\* three families, the pass over that record leaves its five derived fields
\* NaN and the loop goes on to the next record (the run is not aborted).
C1_MissingFileNeverAborts ==
    [][ (AtRecord /\ \E fam \in Families : ~IsFile(Resolved(fam)))
        => /\ pc' = "matching"
           /\ irow' = irow + 1
           /\ Len(pand') = Len(pand)
           /\ AllNaN(At(pand', irow)) ]_vars

\* C2: an invocation of main that finds the output file present or the
\* observation file absent changes no file, parses nothing and opens nothing;
\* in particular the invocation after one that wrote the output leaves the
\* output as it is.
C2_SkipIsNoOp ==
    [][ (pc = "idle" /\ runs' = runs + 1 /\ (outFile.exists \/ ~obsFile.exists))
        => /\ outFile' = outFile
           /\ obsFile' = obsFile
           /\ pc' = "idle"
           /\ exit' = "skip"
           /\ pand' = <<>>
           /\ station' = NoStation
           /\ opened' = <<>>
           /\ fnl' = EmptyMap /\ dsl' = EmptyMap ]_vars

\* a second invocation has skipped over an output written by the first, at a
\* later date at which the filter would have kept a record the output lacks
C2_Witness ==
    /\ runs = 2
    /\ exit = "skip"
    /\ outFile.exists
    /\ Len(outFile.rows) > 0
    /\ \E i \in DOMAIN obsFile.recs :
          /\ KeepRow(obsFile.recs[i], now)
          /\ \A j \in DOMAIN outFile.rows : outFile.rows[j].date # obsFile.recs[i].date

\* a row as the claim reads it: time stamp in ticks, height in metres
RowInWindow(date, hgt, today) ==
    /\ ~(date < MINDATE)
    /\ ~(date > today - 3 * Day)
    /\ ~(hgt * 1000 <= 0)
    /\ ~(hgt * 1000 >= 15000 * HgtDen)

C8_CacheShape ==
    /\ DOMAIN fnl = DOMAIN dsl
    /\ DOMAIN fnl \subseteq Families
    /\ \A fam \in DOMAIN fnl : dsl[fam].src = fnl[fam] /\ IsFile(fnl[fam])

C8_Cache ==
    [][ /\ C8_CacheShape'
        /\ AtRecord =>
             /\ \A q \in Range(opened') : \E fam \in Families : q = Resolved(fam)
             /\ \A i, j \in DOMAIN opened' : opened'[i] = opened'[j] => i = j
             /\ \A fam \in Families :
                   /\ (fam \in DOMAIN fnl /\ fnl[fam] = Resolved(fam))
                        => /\ Resolved(fam) \notin Range(opened')
                           /\ pc' = "matching" => /\ fnl'[fam] = fnl[fam]
                                                  /\ dsl'[fam] = dsl[fam]
                   /\ (Resolved(fam) \in Range(opened') /\ pc' = "matching")
                        => /\ fnl'[fam] = Resolved(fam)
                           /\ dsl'[fam].src = Resolved(fam)
                   /\ (pc' = "matching" /\ fam \in DOMAIN fnl'
                         /\ (fam \notin DOMAIN fnl \/ fnl'[fam] # fnl[fam]))
                        => fnl'[fam] \in Range(opened') ]_vars

\* the last pass served the pbl family from the cache and replaced chm and met
C8_Witness ==
    /\ pc = "matching"
    /\ irow = 2
    /\ Len(opened) = 2
    /\ DOMAIN fnl = Families
    /\ fnl["pbl"] \notin Range(opened)
    /\ fnl["chm"] \in Range(opened)

\* C9: after a pass that resolved all three families for a record with time
\* stamp t, the chm and met paths name one and the same hour, which is a
\* nearest hour of t, and the pbl path names the clock hour of t, whatever
\* the cache held before the pass.
C9_Paths ==
    [][ (AtRecord /\ pc' = "matching" /\ "Warning - file not found" \notin Range(stdout'))
        => LET t == CurDate
           IN  /\ fnl'["chm"].hr = fnl'["met"].hr
               /\ 2 * Abs(fnl'["chm"].hr * TicksPerHour - t) <= TicksPerHour
               /\ fnl'["pbl"].hr * TicksPerHour <= t
               /\ t < (fnl'["pbl"].hr + 1) * TicksPerHour
               /\ fnl'["chm"].col = "chm" /\ fnl'["met"].col = "met"
               /\ fnl'["chm"].mm = "00z" /\ fnl'["met"].mm = "00z"
               /\ fnl'["pbl"].mm = "30z" ]_vars

\* the chm and met files of a record are those of the hour after its clock hour
C9_Witness ==
    /\ pc = "matching"
    /\ irow > 0
    /\ DOMAIN fnl = Families
    /\ fnl["chm"].hr = fnl["pbl"].hr + 1
    /\ fnl["met"].hr = fnl["pbl"].hr + 1
    /\ fnl["pbl"].hr = At(pand, irow - 1).date \div TicksPerHour

-----------------------------------------------------------------------------
(* Properties of the integration loop, checked under SpecInt.  The layer   *)
(* heights of the claims are written out here from the profile: layer i,   *)
(* counted from 0 at the surface, has the top (z[i] + z[i+1])/2 if a layer *)
(* i+1 exists, and the bottom 0 (i = 0) or the top of layer i-1.           *)

HasTop(p) == 0..(Len(p.zl) - 2)
Top2(p, i) == p.zl[i + 1] + p.zl[i + 2]
Bot2(p, i) == IF i = 0 THEN 0 ELSE Top2(p, i - 1)

TopAbove(p, i) == Top2(p, i) * p.ihgt.d > 2 * p.ihgt.n
TopEquals(p, i) == Top2(p, i) * p.ihgt.d = 2 * p.ihgt.n
TopBelow(p, i) == Top2(p, i) * p.ihgt.d < 2 * p.ihgt.n

SomeTopAbove(p) == \E i \in HasTop(p) : TopAbove(p, i)
FirstAbove(p) ==
    CHOOSE j \in HasTop(p) :
        TopAbove(p, j) /\ \A i \in HasTop(p) : i < j => ~TopAbove(p, i)

\* x[i]*dp[i]*(1-q[i]), in units of K
Full(p, i) == Rat(p.no2[i + 1] * p.delp[i + 1] * (QDen - p.q[i + 1]), MixDen * QDen)

RECURSIVE SumFull(_, _)
SumFull(p, S) ==
    IF S = {} THEN RInt(0)
    ELSE LET i == CHOOSE x \in S : TRUE
         IN  RAdd(Full(p, i), SumFull(p, S \ {i}))

\* (H - layerBottom)/(layerTop - layerBottom)
PartOf(p, j) ==
    Rat(2 * p.ihgt.n - Bot2(p, j) * p.ihgt.d, (Top2(p, j) - Bot2(p, j)) * p.ihgt.d)

ClosedForm(p) ==
    RAdd(SumFull(p, {i \in HasTop(p) : ~TopAbove(p, i)}),
         RMul(Full(p, FirstAbove(p)), PartOf(p, FirstAbove(p))))

\* C4: when some layer top exceeds H, no pass of the loop lowers the running
\* sum or raises, and the loop ends right after the first layer j whose top
\* exceeds H with the sum of the full layers whose top is at or below H plus
\* the fraction (H - bottom)/(top - bottom) of layer j.
C4_PartialColumn ==
    [][ (loop.pc = "loop" /\ SomeTopAbove(loop.p))
        => /\ RLeq(loop.st.l1col, loop'.st.l1col)
           /\ loop'.pc # "raised"
           /\ loop'.st.iL <= FirstAbove(loop.p) + 1
           /\ loop'.pc = "done" => /\ loop'.st.l1col = ClosedForm(loop.p)
                                   /\ loop'.st.iL = FirstAbove(loop.p) + 1 ]_vars

\* the loop ended in its second or a later layer, of which it took a part
C4_Witness ==
    /\ loop.pc = "done"
    /\ loop.st.iL >= 2
    /\ RLt(RInt(0), loop.st.frac)
    /\ RLt(loop.st.frac, RInt(1))
    /\ RLt(RInt(0), loop.st.l1col)
    /\ loop.st.l1col # SumFull(loop.p, 0..(loop.st.iL - 1))

\* C5: when H is above every layer top, the loop ends without an exception,
\* having printed the warning, with the sum of the layers as l1col.
C5_AboveAtmosphere ==
    (/\ loop.pc \in {"done", "raised"}
     /\ HasTop(loop.p) # {}
     /\ \A i \in HasTop(loop.p) : TopBelow(loop.p, i))
    => /\ loop.pc = "done"
       /\ loop.st.err = None
       /\ loop.st.warned
       /\ loop.st.l1col = SumFull(loop.p, 0..(loop.st.iL - 1))

\* C10: when H equals the top of layer k, the loop ends with layer k as the
\* last layer visited, taken with frac = 1.0, and with the full contributions
\* of layers 0..k as the column, for every k.
C10_ExactTop ==
    \A k \in HasTop(loop.p) :
        (loop.pc \in {"done", "raised"} /\ TopEquals(loop.p, k))
        => /\ loop.pc = "done"
           /\ loop.st.iL = k + 1
           /\ loop.st.frac = RInt(1)
           /\ loop.st.l1col = SumFull(loop.p, 0..k)

-----------------------------------------------------------------------------
(* Property of the conversions, checked under SpecConv *)

\* C7 as stated: the inverse conversion applied to the forward concentration
\* gives back x0*1e9.
C7_RoundTrip ==
    (conv.pc = "done" /\ RLt(conv.q0, RInt(1)))
    => conv.back = RMul(conv.x0, RInt(PPB))

\* C7 as amended: it gives back x0*1e9/(1-q[0]), the dry-air mixing ratio,
\* which is x0*1e9 when q[0] = 0.
C7_RoundTripDry ==
    (conv.pc = "done" /\ RLt(conv.q0, RInt(1)))
    => /\ RMul(conv.back, RSub(RInt(1), conv.q0)) = RMul(conv.x0, RInt(PPB))
       /\ conv.q0 = RInt(0) => conv.back = RMul(conv.x0, RInt(PPB))

\* a round trip through moist air of a non-zero mixing ratio
C7_Witness ==
    /\ conv.pc = "done"
    /\ RLt(RInt(0), conv.q0) /\ RLt(conv.q0, RInt(1))
    /\ conv.x0.n > 0
    /\ conv.temp.n > 1
    /\ conv.prs.n > 1
    /\ conv.back # RMul(conv.x0, RInt(PPB))

-----------------------------------------------------------------------------
(* Property of the header scan, checked under SpecRead *)

LabelAbsent(lines) ==
    \E l \in {"Location latitude", "Location longitude"} :
        \A i \in DOMAIN lines : lines[i].label # l

\* C6: on a header without the latitude or without the longitude line the
\* scan reads end-of-file at most once and does not return.
C6_StopsAtEof ==
    LabelAbsent(rd.r.lines) => /\ rd.r.eofReads <= 1
                               /\ rd.pc # "returned"

====
